---- MODULE Spec2Model ----
(***************************************************************************)
(* A model of the PlayPulse API (flask-playpulse-api):                     *)
(*   - the job orchestration of routes/players.py (start, poll,            *)
(*     clear-cache requests and the background worker thread),             *)
(*   - the player resolver and the throttled fetcher of                    *)
(*     services/data_collection.py,                                        *)
(*   - the match collector of services/data_collection.py.                 *)
(* Three specifications share the module: Spec (orchestrator),             *)
(* SpecResolve (resolver and throttled fetcher), SpecCollect (collector).  *)
(***************************************************************************)
EXTENDS Integers, Sequences, FiniteSets, TLC

(***************************************************************************)
(* Bounds of the model.                                                    *)
(***************************************************************************)
\* distinct result payloads a pipeline run can produce
NumPayloads == 2
\* the wall clock runs from 0 to MaxTime
MaxTime == 1
\* background threads that can be created for one player identifier
MaxWorkersPerKey == 2
\* validity window of a cache entry in clock ticks, as the specification of
\* the orchestrator words it; routes/players.py defines no such window
CacheTTL == 1

(***************************************************************************)
(* Program constants.                                                      *)
(***************************************************************************)
\* gunicorn_config.py: threads = 2 (request handlers that run concurrently)
Threads == 2

\* the player identifier that the requests of Spec name.  A handler and a
\* worker read and write the dict entries of their own identifier only.
Keys == {1}
\* a player_id string that float() rejects
InvalidId == 0
Payloads == 1..NumPayloads
ReqThreads == 1..Threads

(***************************************************************************)
(* State of the orchestrator (routes/players.py).                          *)
(***************************************************************************)
VARIABLES
    active_jobs,    \* dict player_id -> job entry
    player_cache,   \* dict player_id -> [data, timestamp]
    now,            \* time.time()
    req,            \* per request thread: the request it serves and where it is
    response,       \* the HTTP response sent by the last step (NoResponse: none)
    workers,        \* per player_id: the background threads started, in order
    resolver,       \* a run of find_player / _verify_player_id (SpecResolve)
    collector,      \* a run of collect_player_data (SpecCollect)
    metrics,        \* a run of calculate_performance_metrics (SpecMetrics)
    predictor,      \* a PlayerPerformancePredictor and its caller (SpecPredict)
    task            \* one submission of collect_player_data_task (SpecTask)

jobVars == <<active_jobs, player_cache, now, req, response, workers>>
pipelineVars == <<metrics, predictor, task>>
vars == <<active_jobs, player_cache, now, req, response, workers, resolver, collector,
          metrics, predictor, task>>

\* a Python dict is a function on the set of its keys
EmptyDict == [x \in {} |-> 0]
\* Put that stores v under every key of the dict
PutAll(d, k, v) == [x \in (DOMAIN d) \cup {k} |-> v]

Put(d, k, v) == [x \in (DOMAIN d) \cup {k} |-> IF x = k THEN v ELSE d[x]]

IdleReq == [op |-> "none", key |-> InvalidId, pc |-> "idle"]
NoResponse == [thread |-> 0, op |-> "none", key |-> InvalidId, code |-> 0,
               body |-> [none |-> TRUE]]

\* the job entries the program writes
StartingEntry ==
    [status |-> "starting", progress |-> 0, message |-> "Initiating data collection"]
CollectingEntry ==
    [status |-> "collecting", progress |-> 0, message |-> "Finding player data..."]
ProcessingEntry ==
    [status |-> "processing", progress |-> 50, message |-> "Calculating metrics..."]
FailedEntry(msg) == [status |-> "failed", message |-> msg]
\* CompletedEntry without the 'data' item
CompletedEntryBare(p) ==
    [status |-> "completed", message |-> "Data processing complete"]

CompletedEntry(p) ==
    [status |-> "completed", data |-> p, message |-> "Data processing complete"]

MsgCollectFailed == "Failed to collect player data"
MsgMetricsFailed == "Failed to calculate performance metrics"
MsgProcessingError == "Processing error: exception text"

NonTerminal == {"starting", "collecting", "processing"}

InitJobs ==
    /\ active_jobs = EmptyDict
    /\ player_cache = EmptyDict
    /\ now = 0
    /\ req = [r \in ReqThreads |-> IdleReq]
    /\ response = NoResponse
    /\ workers = [k \in Keys |-> <<>>]

(***************************************************************************)
(* Request handlers.  A handler is split at the reads and writes of the    *)
(* shared dicts, between which another thread can run.                     *)
(***************************************************************************)
\* the handler of thread r returns: the response goes out, the thread is free
Respond(r, op, k, code, body) ==
    /\ response' = [thread |-> r, op |-> op, key |-> k, code |-> code, body |-> body]
    /\ req' = [req EXCEPT ![r] = IdleReq]

\* the handler of thread r goes on at pc
Goto(r, op, k, pc) ==
    /\ req' = [req EXCEPT ![r] = [op |-> op, key |-> k, pc |-> pc]]
    /\ response' = NoResponse

\* get_player_performances: float(player_id), then `player_id_float in player_cache`
StartCheckCache(r, k) ==
    /\ req[r].pc = "idle"
    /\ IF k = InvalidId
         THEN Respond(r, "start", k, 400, [error |-> "Invalid player ID format"])
         ELSE Goto(r, "start", k, IF k \in DOMAIN player_cache THEN "s_read" ELSE "s_jobs")
    /\ UNCHANGED <<active_jobs, player_cache, now, workers>>
    /\ UNCHANGED <<resolver, collector, pipelineVars>>

\* return jsonify(player_cache[player_id_float]['data']); a KeyError ends in
\* the handler's `except Exception`
StartReadCache(r) ==
    /\ req[r].pc = "s_read"
    /\ IF req[r].key \in DOMAIN player_cache
         THEN Respond(r, "start", req[r].key, 200, [data |-> player_cache[req[r].key].data])
         ELSE Respond(r, "start", req[r].key, 500, [error |-> "KeyError"])
    /\ UNCHANGED <<active_jobs, player_cache, now, workers>>
    /\ UNCHANGED <<resolver, collector, pipelineVars>>

\* StartJobAnswer with the status code chosen the wrong way round
StartJobAnswerSwapped(r, k, job_status) ==
    IF job_status.status = "completed" /\ "data" \in DOMAIN job_status
      THEN Respond(r, "start", k, 200, [data |-> job_status.data])
      ELSE Respond(r, "start", k, IF job_status.status = "failed" THEN 202 ELSE 500,
                   [status |-> job_status.status, message |-> job_status.message])

\* the answer of get_player_performances for an existing job entry
StartJobAnswer(r, k, job_status) ==
    IF job_status.status = "completed" /\ "data" \in DOMAIN job_status
      THEN Respond(r, "start", k, 200, [data |-> job_status.data])
      ELSE Respond(r, "start", k, IF job_status.status # "failed" THEN 202 ELSE 500,
                   [status |-> job_status.status, message |-> job_status.message])

\* `player_id_float in active_jobs` and the answer for an existing entry
StartCheckJobs(r) ==
    /\ req[r].pc = "s_jobs"
    /\ IF req[r].key \in DOMAIN active_jobs
         THEN StartJobAnswer(r, req[r].key, active_jobs[req[r].key])
         ELSE Goto(r, "start", req[r].key, "s_write")
    /\ UNCHANGED <<active_jobs, player_cache, now, workers>>
    /\ UNCHANGED <<resolver, collector, pipelineVars>>

\* active_jobs[player_id_float] = {'status': 'starting', ...}
StartWriteMarker(r) ==
    /\ req[r].pc = "s_write"
    /\ active_jobs' = Put(active_jobs, req[r].key, StartingEntry)
    /\ Goto(r, "start", req[r].key, "s_launch")
    /\ UNCHANGED <<player_cache, now, workers>>
    /\ UNCHANGED <<resolver, collector, pipelineVars>>

NewWorker == [pc |-> "begin", performances |-> 0, outcome |-> "none"]

\* thread.start() and the 202 answer
StartLaunch(r) ==
    /\ req[r].pc = "s_launch"
    /\ Len(workers[req[r].key]) < MaxWorkersPerKey
    /\ workers' = [workers EXCEPT ![req[r].key] = Append(@, NewWorker)]
    /\ Respond(r, "start", req[r].key, 202,
               [status |-> "processing", message |-> "Data collection started"])
    /\ UNCHANGED <<active_jobs, player_cache, now>>
    /\ UNCHANGED <<resolver, collector, pipelineVars>>

\* thread.start() raises (no thread can be created): `except Exception` answers 500
StartLaunchFails(r) ==
    /\ req[r].pc = "s_launch"
    /\ Respond(r, "start", req[r].key, 500, [error |-> "can't start new thread"])
    /\ UNCHANGED <<active_jobs, player_cache, now, workers>>
    /\ UNCHANGED <<resolver, collector, pipelineVars>>

\* get_performance_status: float(player_id), then `player_id_float in active_jobs`
PollCheckJobs(r, k) ==
    /\ req[r].pc = "idle"
    /\ IF k = InvalidId
         THEN Respond(r, "poll", k, 400, [error |-> "Invalid player ID format"])
         ELSE IF k \in DOMAIN active_jobs
                THEN Respond(r, "poll", k, 200, active_jobs[k])
                ELSE Goto(r, "poll", k, "p_cache")
    /\ UNCHANGED <<active_jobs, player_cache, now, workers>>
    /\ UNCHANGED <<resolver, collector, pipelineVars>>

\* `player_id_float in player_cache`, else the 404 answer
PollCheckCache(r) ==
    /\ req[r].pc = "p_cache"
    /\ IF req[r].key \in DOMAIN player_cache
         THEN Goto(r, "poll", req[r].key, "p_read")
         ELSE Respond(r, "poll", req[r].key, 404, [status |-> "not_found",
                  message |-> "No active processing job found for this player"])
    /\ UNCHANGED <<active_jobs, player_cache, now, workers>>
    /\ UNCHANGED <<resolver, collector, pipelineVars>>

\* the answer built from player_cache[player_id_float]['data']
PollReadCache(r) ==
    /\ req[r].pc = "p_read"
    /\ IF req[r].key \in DOMAIN player_cache
         THEN Respond(r, "poll", req[r].key, 200,
                      CompletedEntry(player_cache[req[r].key].data))
         ELSE Respond(r, "poll", req[r].key, 500, [error |-> "KeyError"])
    /\ UNCHANGED <<active_jobs, player_cache, now, workers>>
    /\ UNCHANGED <<resolver, collector, pipelineVars>>

\* clear_cache: the X-Admin-Key check, then player_cache.clear()
ClearCache(r) ==
    /\ req[r].pc = "idle"
    /\ \E authorized \in BOOLEAN :
          IF authorized
            THEN /\ player_cache' = EmptyDict
                 /\ Respond(r, "clear", InvalidId, 200,
                            [message |-> "Cache cleared successfully"])
            ELSE /\ UNCHANGED player_cache
                 /\ Respond(r, "clear", InvalidId, 401, [error |-> "Unauthorized"])
    /\ UNCHANGED <<active_jobs, now, workers>>
    /\ UNCHANGED <<resolver, collector, pipelineVars>>

(***************************************************************************)
(* The background worker, process_player_data_in_background: worker i of   *)
(* player_id k.                                                            *)
(***************************************************************************)
WorkerIds(k) == 1..Len(workers[k])

\* outcome: "none" while the run is under way, "failed" once a stage has
\* failed or raised, "ok" once the run has marked the job completed
SetWorker(k, i, pc, perf, outcome) ==
    workers' = [workers EXCEPT ![k][i] =
                   [pc |-> pc, performances |-> perf, outcome |-> outcome]]

\* WorkerFail without the write of the failed status
WorkerFailSilent(k, i, msg) ==
    /\ UNCHANGED active_jobs
    /\ SetWorker(k, i, "done", 0, "failed")

\* the worker ends in a failure: the job entry it leaves, and its own end
WorkerFail(k, i, msg) ==
    /\ active_jobs' = Put(active_jobs, k, FailedEntry(msg))
    /\ SetWorker(k, i, "done", 0, "failed")

\* active_jobs[player_id] = {'status': 'collecting', ...}
WorkerBegin(k, i) ==
    /\ workers[k][i].pc = "begin"
    /\ active_jobs' = Put(active_jobs, k, CollectingEntry)
    /\ SetWorker(k, i, "collect", 0, "none")
    /\ response' = NoResponse
    /\ UNCHANGED <<player_cache, now, req>>
    /\ UNCHANGED <<resolver, collector, pipelineVars>>

\* collector.collect_player_data() returns True: on to the metrics stage
WorkerCollect(k, i) ==
    /\ workers[k][i].pc = "collect"
    /\ active_jobs' = Put(active_jobs, k, ProcessingEntry)
    /\ SetWorker(k, i, "metrics", 0, "none")
    /\ response' = NoResponse
    /\ UNCHANGED <<player_cache, now, req>>
    /\ UNCHANGED <<resolver, collector, pipelineVars>>

\* collector.collect_player_data() returns False, or it raises
WorkerCollectFails(k, i) ==
    /\ workers[k][i].pc = "collect"
    /\ \E raised \in BOOLEAN :
          WorkerFail(k, i, IF raised THEN MsgProcessingError ELSE MsgCollectFailed)
    /\ response' = NoResponse
    /\ UNCHANGED <<player_cache, now, req>>
    /\ UNCHANGED <<resolver, collector, pipelineVars>>

\* collector.calculate_performance_metrics() and to_dict() succeed: the result
\* is saved to player_cache with the current time
WorkerMetrics(k, i) ==
    /\ workers[k][i].pc = "metrics"
    /\ \E p \in Payloads :
          /\ player_cache' = Put(player_cache, k, [data |-> p, timestamp |-> now])
          /\ SetWorker(k, i, "mark", p, "none")
    /\ response' = NoResponse
    /\ UNCHANGED <<active_jobs, now, req>>
    /\ UNCHANGED <<resolver, collector, pipelineVars>>

\* calculate_performance_metrics() returns False, or it or to_dict() raises
WorkerMetricsFails(k, i) ==
    /\ workers[k][i].pc = "metrics"
    /\ \E raised \in BOOLEAN :
          WorkerFail(k, i, IF raised THEN MsgProcessingError ELSE MsgMetricsFailed)
    /\ response' = NoResponse
    /\ UNCHANGED <<player_cache, now, req>>
    /\ UNCHANGED <<resolver, collector, pipelineVars>>

\* active_jobs[player_id] = {'status': 'completed', 'data': performances, ...}
WorkerMark(k, i) ==
    /\ workers[k][i].pc = "mark"
    /\ active_jobs' = Put(active_jobs, k, CompletedEntry(workers[k][i].performances))
    /\ SetWorker(k, i, "done", 0, "ok")
    /\ response' = NoResponse
    /\ UNCHANGED <<player_cache, now, req>>
    /\ UNCHANGED <<resolver, collector, pipelineVars>>

\* time passes
Tick ==
    /\ now < MaxTime
    /\ now' = now + 1
    /\ response' = NoResponse
    /\ UNCHANGED <<active_jobs, player_cache, req, workers>>
    /\ UNCHANGED <<resolver, collector, pipelineVars>>

(***************************************************************************)
(* The player resolver and the throttled fetcher                           *)
(* (services/data_collection.py: find_player, _verify_player_id,           *)
(* _throttled_request).  The external source (statsbombpy) answers every   *)
(* call as it likes: it raises, returns None, an empty frame or rows.      *)
(***************************************************************************)
\* competitions the source lists at most
NumComps == 16
\* matches the source lists for one competition at most
MaxMatchList == 4

\* _verify_player_id: `if checked_competitions >= 15`
MaxCheckedById == 15
\* find_player: `if checked_competitions >= 5`
MaxCheckedByName == 5
\* _verify_player_id: matches.head(3)
HeadMatches == 3
\* _throttled_request: max_retries = 3
max_retries == 3
\* _throttled_request: retry_delay = 1
InitialRetryDelay == 1

Min(a, b) == IF a < b THEN a ELSE b

ResolverOff ==
    [pc |-> "off", entry |-> "none", player_id |-> "none", player_name |-> "none",
     path |-> "none", full_name |-> "none", ncomps |-> 0, ci |-> 0,
     checked_competitions |-> 0, nmatches |-> 0, mi |-> 0,
     attempt |-> 0, retry_delay |-> InitialRetryDelay,
     calls |-> 0, slept |-> <<>>, fetch |-> "none", events |-> "none",
     result |-> "none"]

\* what the caller passes as player_id: nothing, a float, a value float()
\* converts, a value float() rejects
PlayerIdKinds == {"none", "float", "int", "bad"}

\* find_player() or _verify_player_id() is called on a fresh collector
InitResolver ==
    \E entry \in {"find_player", "_verify_player_id"},
       id \in PlayerIdKinds, name \in {"none", "given"} :
       resolver = [ResolverOff EXCEPT !.pc = "entry", !.entry = entry,
                                      !.player_id = id, !.player_name = name]

\* the resolver returns (True: "found", False: "notfound") or raises
ResolverReturns(rs, result) == [rs EXCEPT !.pc = "done", !.result = result]

\* the cap on checked competitions of the path taken
CapLate(rs) ==
    rs.checked_competitions >
       (IF rs.path = "id" THEN MaxCheckedById ELSE MaxCheckedByName)
CapReached(rs) ==
    rs.checked_competitions >=
       (IF rs.path = "id" THEN MaxCheckedById ELSE MaxCheckedByName)

\* the top of the competition loop: the next competition, unless there is
\* none left or the cap is reached
NextCompetition(rs) ==
    IF rs.ci >= rs.ncomps \/ CapReached(rs)
      THEN ResolverReturns(rs, "notfound")
      ELSE [rs EXCEPT !.pc = "matches", !.ci = rs.ci + 1]

\* the top of the match loop: the next match of matches.head(3), else the
\* next competition
NextMatch(rs) ==
    IF rs.mi < rs.nmatches
      THEN [rs EXCEPT !.pc = "events", !.mi = rs.mi + 1, !.attempt = 0,
                      !.retry_delay = InitialRetryDelay]
      ELSE NextCompetition(rs)

\* find_player's dispatch, and the float() conversion of _verify_player_id
ResolveEntry ==
    /\ resolver.pc = "entry"
    /\ resolver' =
         IF resolver.entry = "find_player" /\ resolver.player_id = "none"
           THEN IF resolver.player_name = "none"
                  THEN ResolverReturns(resolver, "notfound")
                  ELSE [resolver EXCEPT !.pc = "competitions", !.path = "name"]
           ELSE IF resolver.player_id \in {"none", "bad"}
                  THEN ResolverReturns(resolver, "notfound")
                  ELSE [resolver EXCEPT !.pc = "competitions", !.path = "id",
                                        !.player_id = "float"]
    /\ UNCHANGED <<jobVars, collector, pipelineVars>>

CompetitionAnswers == {"raise", "none", "empty"} \cup {"rows"}

\* competitions = sb.competitions(), then sort_values: _verify_player_id
\* returns False on an error, None or no rows
ListCompetitionsById ==
    /\ resolver.pc = "competitions" /\ resolver.path = "id"
    /\ \E answer \in CompetitionAnswers, n \in 1..NumComps :
          resolver' =
            IF answer = "rows"
              THEN NextCompetition([resolver EXCEPT !.ncomps = n])
              ELSE ResolverReturns(resolver, "notfound")
    /\ UNCHANGED <<jobVars, collector, pipelineVars>>

\* find_player calls sb.competitions() and sort_values outside any try
ListCompetitionsByName ==
    /\ resolver.pc = "competitions" /\ resolver.path = "name"
    /\ \E answer \in CompetitionAnswers, n \in 1..NumComps :
          resolver' =
            CASE answer = "rows" -> NextCompetition([resolver EXCEPT !.ncomps = n])
              [] answer = "empty" -> ResolverReturns(resolver, "notfound")
              [] OTHER -> ResolverReturns(resolver, "raised")
    /\ UNCHANGED <<jobVars, collector, pipelineVars>>

\* matches = sb.matches(...): an error, None or no rows skip the competition
\* without counting it; otherwise it counts and its first matches are examined
ListMatches ==
    /\ resolver.pc = "matches"
    /\ \E answer \in {"raise", "none", "empty", "rows"}, n \in 1..MaxMatchList :
          resolver' =
            IF answer = "rows"
              THEN [resolver EXCEPT
                      !.pc = "events",
                      !.checked_competitions = resolver.checked_competitions + 1,
                      !.nmatches = IF resolver.path = "id" THEN Min(n, HeadMatches) ELSE 1,
                      !.mi = 1, !.attempt = 0, !.retry_delay = InitialRetryDelay]
              ELSE NextCompetition(resolver)
    /\ UNCHANGED <<jobVars, collector, pipelineVars>>

NextDelaySame(d) == d
\* retry_delay *= 2
NextDelay(d) == d * 2

\* the calls made and the delays slept by the _throttled_request under way
\* (a new request starts at attempt 0)
CallsSoFar(rs) == IF rs.attempt = 0 THEN 0 ELSE rs.calls
SleptSoFar(rs) == IF rs.attempt = 0 THEN <<>> ELSE rs.slept

\* one call of func inside _throttled_request raises: sleep and retry, or
\* raise to the caller after the last attempt
ThrottledCallRaises(rs) ==
    IF rs.attempt < max_retries - 1
      THEN [rs EXCEPT !.calls = CallsSoFar(rs) + 1,
                      !.slept = Append(SleptSoFar(rs), rs.retry_delay),
                      !.retry_delay = NextDelay(rs.retry_delay),
                      !.attempt = rs.attempt + 1,
                      !.fetch = "pending"]
      ELSE [rs EXCEPT !.calls = CallsSoFar(rs) + 1, !.slept = SleptSoFar(rs),
                      !.fetch = "raised", !.events = "none"]

\* one call of func inside _throttled_request returns
ThrottledCallReturns(rs, answer) ==
    [rs EXCEPT !.calls = CallsSoFar(rs) + 1, !.slept = SleptSoFar(rs),
               !.fetch = "returned", !.events = answer]

\* the player is in the events: the name is kept and the resolver returns True
PlayerFound(rs) ==
    ResolverReturns([rs EXCEPT !.full_name = "name"], "found")

\* events = self._throttled_request(sb.events, match_id=...) fails for good:
\* `except Exception` goes on with the next match
VerifyEventsRaise ==
    /\ resolver.pc = "events" /\ resolver.path = "id"
    /\ resolver' =
         LET rs == ThrottledCallRaises(resolver)
         IN  IF rs.fetch = "raised" THEN NextMatch(rs) ELSE rs
    /\ UNCHANGED <<jobVars, collector, pipelineVars>>

\* the events arrive: None or no rows go on with the next match, the player's
\* rows end the search
VerifyEvents ==
    /\ resolver.pc = "events" /\ resolver.path = "id"
    /\ \E answer \in {"none", "empty", "absent", "present"} :
          resolver' =
            LET rs == ThrottledCallReturns(resolver, answer)
            IN  IF answer = "present" THEN PlayerFound(rs) ELSE NextMatch(rs)
    /\ UNCHANGED <<jobVars, collector, pipelineVars>>

\* find_player: events = sb.events(match_id=...) of the first match only, not
\* throttled; any error is caught and the next competition is tried
FindEvents ==
    /\ resolver.pc = "events" /\ resolver.path = "name"
    /\ \E answer \in {"raise", "none", "empty", "absent", "present"} :
          resolver' =
            IF answer = "present"
              THEN PlayerFound([resolver EXCEPT !.events = answer])
              ELSE NextCompetition([resolver EXCEPT !.events = answer])
    /\ UNCHANGED <<jobVars, collector, pipelineVars>>

(***************************************************************************)
(* The match collector (services/data_collection.py: collect_player_data). *)
(***************************************************************************)
\* competitions the source lists to the collector at most
NumCollectComps == 4
\* matches the source lists for one competition at most
MaxCollectMatches == 2
\* match dates
NumDates == 2
\* the largest max_matches a caller asks for
MaxWanted == 2

Dates == 1..NumDates

RECURSIVE InsertDesc(_, _)
InsertDesc(x, s) ==
    IF s = <<>> THEN <<x>>
    ELSE IF x >= Head(s) THEN <<x>> \o s
    ELSE <<Head(s)>> \o InsertDesc(x, Tail(s))

RECURSIVE SortDesc(_)
\* matches.sort_values('match_date', ascending=False)
SortDesc(s) == IF s = <<>> THEN <<>> ELSE InsertDesc(Head(s), SortDesc(Tail(s)))

\* the match lists the source can return: dates in any order
MatchLists == UNION {[1..n -> Dates] : n \in 1..MaxCollectMatches}

CollectorOff ==
    [pc |-> "off", player_id |-> "none", full_name |-> "none", max_matches |-> 0,
     ncomps |-> 0, ci |-> 0, matches |-> <<>>, matches_found |-> 0,
     player_matches |-> <<>>, inspected |-> 0, result |-> "none"]

\* collect_player_data() is called on a collector built with or without a
\* player_id, whose name is known already or not
InitCollector ==
    \E id \in {"none", "float"}, name \in {"none", "name"}, m \in 1..MaxWanted :
       collector = [CollectorOff EXCEPT !.pc = "entry", !.player_id = id,
                                        !.full_name = name, !.max_matches = m]

\* collect_player_data returns True or False, or an exception leaves it
CollectorEnds(c, result) == [c EXCEPT !.pc = "done", !.result = result]

\* after the loops: `if matches_found > 0`
CollectorReturns(c) ==
    CollectorEnds(c, IF c.matches_found > 0 THEN "true" ELSE "false")

\* the top of the competition loop: `if matches_found >= self.max_matches: break`
CollectNextCompetition(c) ==
    IF c.ci >= c.ncomps \/ c.matches_found >= c.max_matches
      THEN CollectorReturns(c)
      ELSE [c EXCEPT !.pc = "matches", !.ci = c.ci + 1, !.matches = <<>>]

\* CollectNextMatch without the check of matches_found in the match loop
CollectNextMatchUncapped(c) ==
    IF c.matches = <<>>
      THEN CollectNextCompetition(c)
      ELSE [c EXCEPT !.pc = "events"]

\* the top of the match loop: `if matches_found >= self.max_matches: break`
CollectNextMatch(c) ==
    IF c.matches = <<>> \/ c.matches_found >= c.max_matches
      THEN CollectNextCompetition(c)
      ELSE [c EXCEPT !.pc = "events"]

\* the player is resolved first: find_player() without an id (it may raise),
\* _verify_player_id() with an id and no name yet
CollectEntry ==
    /\ collector.pc = "entry"
    /\ \/ /\ collector.player_id # "none" /\ collector.full_name # "none"
          /\ collector' = [collector EXCEPT !.pc = "competitions"]
       \/ /\ collector.player_id = "none" \/ collector.full_name = "none"
          /\ \E resolved \in {"found", "notfound", "raised"} :
                /\ resolved = "raised" => collector.player_id = "none"
                /\ collector' =
                     CASE resolved = "found" ->
                            [collector EXCEPT !.pc = "competitions",
                                              !.player_id = "float", !.full_name = "name"]
                       [] resolved = "notfound" -> CollectorEnds(collector, "false")
                       [] OTHER -> CollectorEnds(collector, "raised")
    /\ UNCHANGED <<jobVars, resolver, pipelineVars>>

\* competitions = sb.competitions() and sort_values, outside any try
CollectCompetitions ==
    /\ collector.pc = "competitions"
    /\ \E answer \in {"raise", "none", "rows"}, n \in 0..NumCollectComps :
          collector' =
            IF answer = "rows"
              THEN CollectNextCompetition([collector EXCEPT !.ncomps = n])
              ELSE CollectorEnds(collector, "raised")
    /\ UNCHANGED <<jobVars, resolver, pipelineVars>>

\* matches = sb.matches(...) fails, or returns None or no rows: the
\* competition is left (by `except Exception`, or by an empty match loop)
CollectMatchesSkipped ==
    /\ collector.pc = "matches"
    /\ collector' = CollectNextCompetition(collector)
    /\ UNCHANGED <<jobVars, resolver, pipelineVars>>

\* matches = sb.matches(...) returns rows: they are sorted by date, latest first
CollectMatches ==
    /\ collector.pc = "matches"
    /\ \E rows \in MatchLists :
          collector' = CollectNextMatch([collector EXCEPT
                           !.matches = SortDesc(rows),
                           !.inspected = collector.inspected + 1])
    /\ UNCHANGED <<jobVars, resolver, pipelineVars>>

\* the match record appended to player_matches
MatchRecord(c) == [competition |-> c.ci, match_date |-> Head(c.matches)]

\* events = sb.events(match_id=...) raises or has no row of the player
CollectEventsWithoutPlayer ==
    /\ collector.pc = "events"
    /\ collector' = CollectNextMatch([collector EXCEPT !.matches = Tail(collector.matches)])
    /\ UNCHANGED <<jobVars, resolver, pipelineVars>>

\* the player is in the events: the match is counted and recorded
CollectEventsWithPlayer ==
    /\ collector.pc = "events"
    /\ collector' = CollectNextMatch([collector EXCEPT
                        !.matches_found = collector.matches_found + 1,
                        !.player_matches = Append(collector.player_matches,
                                                  MatchRecord(collector)),
                        !.matches = Tail(collector.matches)])
    /\ UNCHANGED <<jobVars, resolver, pipelineVars>>

\* the player is in the events, but a column the team statistics read is
\* missing: the exception comes after `matches_found += 1` and before
\* player_matches.append, and `except Exception` goes on with the next match
CollectEventsBroken ==
    /\ collector.pc = "events"
    /\ collector' = CollectNextMatch([collector EXCEPT
                        !.matches_found = collector.matches_found + 1,
                        !.matches = Tail(collector.matches)])
    /\ UNCHANGED <<jobVars, resolver, pipelineVars>>

(***************************************************************************)
(* The metrics derivation and the anomaly filter (services/                *)
(* data_collection.py: calculate_performance_metrics and                   *)
(* _detect_and_handle_anomalies).  A match is held as the counts of the     *)
(* player's events in it; a rate is held as the fraction the code divides.  *)
(***************************************************************************)
\* matches of a collected series at most
MaxSeries == 4
\* passes of the player in one match at most
MaxPasses == 1
\* match dates of the collected series
MetricDates == {1, 2}

\* self.anomaly_threshold = 2.0
anomaly_threshold == 2
\* `len(self.performance_metrics) < 4`: no detection below 4 matches
MinAnomalySeries == 4
\* `len(team_values) > 3`
MinTeamValues == 3

NoTeam == [known |-> FALSE, num |-> 0, den |-> 1]
TeamRate(n, d) == [known |-> TRUE, num |-> n, den |-> d]

\* the player's events of one match as calculate_performance_metrics counts
\* them, and the team entry collect_player_data saved for the match (if any)
MatchEvents(date, total, completed, defensive, team) ==
    [match_date |-> date, total_passes |-> total, completed_passes |-> completed,
     defensive_actions |-> defensive, team |-> team]

GeneralMatches ==
    {MatchEvents(x[1], x[2], x[3], 0, NoTeam) :
        x \in {y \in MetricDates \X (0..MaxPasses) \X (0..MaxPasses) : y[3] <= y[2]}}

GeneralSeries == UNION {[1..n -> GeneralMatches] : n \in 0..MaxSeries}

\* completed passes out of 100 of a series with one poor match
ScenarioSeries == <<80, 82, 79, 81, 15, 83>>
ScenarioOrders ==
    {p \in [DOMAIN ScenarioSeries -> DOMAIN ScenarioSeries] :
        \A i, j \in DOMAIN p : i # j => p[i] # p[j]}
\* the dates of the series: oldest first, latest first, or two matches a day
ScenarioDates ==
    {[i \in DOMAIN ScenarioSeries |-> i],
     [i \in DOMAIN ScenarioSeries |-> Len(ScenarioSeries) + 1 - i],
     [i \in DOMAIN ScenarioSeries |-> (i + 1) \div 2]}
\* the team's pass completion: not saved, the same in every match, or poor in
\* the first match
ScenarioTeams ==
    {[i \in DOMAIN ScenarioSeries |-> NoTeam],
     [i \in DOMAIN ScenarioSeries |-> TeamRate(50, 100)],
     [i \in DOMAIN ScenarioSeries |-> IF i = 1 THEN TeamRate(10, 100)
                                               ELSE TeamRate(50, 100)]}
\* the defensive actions: the same in every match, or many in the second
ScenarioDefensive ==
    {[i \in DOMAIN ScenarioSeries |-> 3],
     [i \in DOMAIN ScenarioSeries |-> IF i = 2 THEN 40 ELSE 3]}

\* the events of a series of five matches with one busier match, which may be
\* any of the five
BoundarySeries == <<4, 4, 4, 4, 7>>
BoundaryInputs ==
    {[i \in DOMAIN BoundarySeries |->
         LET total == BoundarySeries[IF i = p THEN Len(BoundarySeries)
                                     ELSE IF i = Len(BoundarySeries) THEN p ELSE i]
         IN  MatchEvents(i, total, total, 0, NoTeam)] :
        p \in DOMAIN BoundarySeries}

ScenarioInputs ==
    {[i \in DOMAIN ScenarioSeries |->
         MatchEvents(d[i], 100, ScenarioSeries[p[i]], f[i], t[i])] :
        p \in ScenarioOrders, d \in ScenarioDates, t \in ScenarioTeams,
        f \in ScenarioDefensive}

MetricsOff ==
    [pc |-> "off", collected |-> FALSE, player_matches |-> <<>>, derived |-> <<>>,
     filtered |-> <<>>, performance_metrics |-> <<>>, result |-> "none"]

\* calculate_performance_metrics() is called before or after a collection
InitMetrics ==
    \/ metrics = [MetricsOff EXCEPT !.pc = "input"]
    \/ \E pm \in GeneralSeries \cup ScenarioInputs \cup BoundaryInputs :
          metrics = [MetricsOff EXCEPT !.pc = "input", !.collected = TRUE,
                                       !.player_matches = pm]

\* pass_completion_rate counting the passes that have an outcome (the
\* incomplete ones)
PassCompletionRateOfIncomplete(completed, total) ==
    IF total > 0 THEN [num |-> total - completed, den |-> total]
                 ELSE [num |-> 0, den |-> 1]

\* pass_completion_rate = completed_passes / total_passes if total_passes > 0 else 0
PassCompletionRate(completed, total) ==
    IF total > 0 THEN [num |-> completed, den |-> total]
                 ELSE [num |-> 0, den |-> 1]

\* the match_metrics dictionary of one match; the events of the player are its
\* passes and its defensive actions
MatchMetrics(m, id) ==
    [match_id |-> id, match_date |-> m.match_date,
     total_events |-> m.total_passes + m.defensive_actions,
     total_passes |-> m.total_passes, completed_passes |-> m.completed_passes,
     pass_completion_rate |-> PassCompletionRate(m.completed_passes, m.total_passes),
     defensive_actions |-> m.defensive_actions,
     team_pass_completion |-> m.team]

\* the loop over self.player_matches; the match_id is the place in the list
DeriveMetrics(pm) == [i \in DOMAIN pm |-> MatchMetrics(pm[i], i)]

RECURSIVE SumSeq(_)
SumSeq(xs) == IF xs = <<>> THEN 0 ELSE Head(xs) + SumSeq(Tail(xs))

RECURSIVE GCD(_, _)
GCD(a, b) == IF b = 0 THEN a ELSE GCD(b, a % b)

RECURSIVE CommonDen(_)
CommonDen(rs) ==
    IF rs = <<>> THEN 1
    ELSE (Head(rs).den * CommonDen(Tail(rs))) \div GCD(Head(rs).den, CommonDen(Tail(rs)))

\* the fractions of a column over their common denominator: the z-scores of
\* the numerators are the z-scores of the fractions
Scaled(rs) ==
    LET den == CommonDen(rs)
    IN  [i \in DOMAIN rs |-> rs[i].num * (den \div rs[i].den)]

\* n * n times the variance np.std squares: 0 exactly when std == 0
Spread(xs) ==
    Len(xs) * SumSeq([i \in DOMAIN xs |-> xs[i] * xs[i]]) - SumSeq(xs) * SumSeq(xs)

\* Outliers without np.abs: only the values above the mean are flagged
OutliersAbove(xs, rounds_up) ==
    LET n == Len(xs)
        sum == SumSeq(xs)
        spread == Spread(xs)
    IN  IF spread = 0 THEN {}
        ELSE {i \in DOMAIN xs :
                /\ n * xs[i] > sum
                /\ LET dev2 == (n * xs[i] - sum) * (n * xs[i] - sum)
                       bound == anomaly_threshold * anomaly_threshold * spread
                   IN  dev2 > bound \/ (rounds_up /\ dev2 = bound)}

\* the places whose z-score |x - mean| / std exceeds the threshold, none when
\* std == 0; both sides of z > threshold are squared and multiplied by n * n.
\* np.mean, np.std and the division are float64: a z-score that equals the
\* threshold exactly comes out as 2.0 or as 2.0000000000000004 depending on
\* the values (2.0 for 80, 80, 80, 80, 15; above it for 4, 4, 4, 4, 7), which
\* rounds_up stands for
Outliers(xs, rounds_up) ==
    LET n == Len(xs)
        sum == SumSeq(xs)
        spread == Spread(xs)
    IN  IF spread = 0 THEN {}
        ELSE {i \in DOMAIN xs :
                LET dev2 == (n * xs[i] - sum) * (n * xs[i] - sum)
                    bound == anomaly_threshold * anomaly_threshold * spread
                IN  dev2 > bound \/ (rounds_up /\ dev2 = bound)}

\* the column of a metric of metrics_to_check
MetricColumn(s, metric) ==
    CASE metric = "pass_completion_rate" ->
            Scaled([i \in DOMAIN s |-> s[i].pass_completion_rate])
      [] metric = "total_events" -> [i \in DOMAIN s |-> s[i].total_events]
      [] OTHER -> [i \in DOMAIN s |-> s[i].defensive_actions]

metrics_to_check == {"pass_completion_rate", "total_events", "defensive_actions"}

\* the rows whose team_pass_completion is not None (dropna)
TeamRows(s) == SelectSeq(s, LAMBDA r : r.team_pass_completion.known)

\* the matches flagged for the team's pass completion, when more than 3
\* matches have one
TeamAnomalies(s, rounds_up) ==
    LET rows == TeamRows(s)
    IN  IF Len(rows) > MinTeamValues
          THEN {rows[i].match_id :
                  i \in Outliers(Scaled([j \in DOMAIN rows |->
                                            rows[j].team_pass_completion]),
                                  rounds_up)}
          ELSE {}

\* anomalous_matches
AnomalousMatches(s, rounds_up) ==
    UNION {{s[i].match_id : i \in Outliers(MetricColumn(s, metric), rounds_up)} :
             metric \in metrics_to_check}
      \cup TeamAnomalies(s, rounds_up)

\* _detect_and_handle_anomalies that drops a series too short to analyse
DetectShortDropped(s, rounds_up) ==
    IF Len(s) < MinAnomalySeries THEN <<>>
    ELSE LET anomalous_matches == AnomalousMatches(s, rounds_up)
         IN  SelectSeq(s, LAMBDA r : r.match_id \notin anomalous_matches)

\* _detect_and_handle_anomalies: the series it leaves in performance_metrics
DetectAndHandleAnomalies(s, rounds_up) ==
    IF Len(s) < MinAnomalySeries THEN s
    ELSE LET anomalous_matches == AnomalousMatches(s, rounds_up)
         IN  SelectSeq(s, LAMBDA r : r.match_id \notin anomalous_matches)

RECURSIVE InsertByDate(_, _)
InsertByDate(r, s) ==
    IF s = <<>> THEN <<r>>
    ELSE IF s[Len(s)].match_date <= r.match_date THEN Append(s, r)
    ELSE Append(InsertByDate(r, SubSeq(s, 1, Len(s) - 1)), s[Len(s)])

\* the series left in the order it was collected in
SortSkipped(s) == s

RECURSIVE SortByDate(_)
\* sort_values('match_date'): oldest first, matches of one date in the order
\* they had (series of this size are sorted by insertion)
SortByDate(s) ==
    IF s = <<>> THEN <<>>
    ELSE InsertByDate(s[Len(s)], SortByDate(SubSeq(s, 1, Len(s) - 1)))

\* performance_metrics['match_num'] = range(1, len(performance_metrics) + 1)
NumberMatches(s) == [i \in DOMAIN s |-> [match_num |-> i] @@ s[i]]

\* calculate_performance_metrics without collected data returns False
CalculateWithoutData ==
    /\ metrics.pc = "input" /\ ~metrics.collected
    /\ metrics' = [metrics EXCEPT !.pc = "done", !.result = "false"]
    /\ UNCHANGED <<jobVars, resolver, collector, predictor, task>>

\* calculate_performance_metrics on collected data: derive, filter, sort and
\* number; an empty frame has no match_date column to sort by (KeyError)
CalculatePerformanceMetrics ==
    /\ metrics.pc = "input" /\ metrics.collected
    /\ \E rounds_up \in BOOLEAN : metrics' =
         LET derived == DeriveMetrics(metrics.player_matches)
             filtered == DetectAndHandleAnomalies(derived, rounds_up)
         IN  IF filtered = <<>>
               THEN [metrics EXCEPT !.pc = "done", !.derived = derived,
                                    !.filtered = filtered, !.result = "raised"]
               ELSE [metrics EXCEPT !.pc = "done", !.derived = derived,
                                    !.filtered = filtered,
                                    !.performance_metrics =
                                        NumberMatches(SortByDate(filtered)),
                                    !.result = "true"]
    /\ UNCHANGED <<jobVars, resolver, collector, predictor, task>>

(***************************************************************************)
(* The prediction engine (services/ml_models.py) and what its callers      *)
(* (routes/predictions.py, tasks.py) make of it.  A series is held by its   *)
(* length, a test error in units of 0.00001.                                *)
(***************************************************************************)
\* matches of the series handed to the predictor at most
MaxLength == 8
\* the test errors a regressor can have: below, at and above 0.0001
MSEValues == {5, 10, 20}

\* create_time_series_features(self, window_size=3)
window_size == 3
\* `len(X) < 4`: train_models needs 4 windows
MinWindows == 4
\* `len(self.performance_metrics) < 3`: no prediction below 3 matches
MinPredictLength == 3
\* `len(self.performance_metrics) < 5`: the simple prediction below 5 matches
SimpleBelow == 5
\* `len(performances_df) < 4` in predict_player_performance
RouteMinMatches == 4
\* `best_mse < 0.0001`
OverfitMSE == 10

features == <<"pass_completion_rate", "total_events", "total_passes", "defensive_actions">>
ModelTypes ==
    {"neural_network", "linear_regression", "decision_tree", "svm", "random_forest"}

\* the table of the predictor before the decision tree was replaced in it
best_model_types_with_tree ==
    [f \in {features[i] : i \in DOMAIN features} |->
        IF f = "total_passes" THEN "decision_tree" ELSE "neural_network"]

\* self.best_model_types
best_model_types ==
    [f \in {features[i] : i \in DOMAIN features} |->
        IF f = "total_passes" THEN "random_forest" ELSE "neural_network"]

NoPerformances == [t \in ModelTypes |-> 0]

\* self.decline_threshold = 0.05, in percent
decline_threshold == 5
\* the predicted percentage changes of a metric, in percent: at the threshold
\* and above it
ChangeValues == {-5, -4}
NoChanges == [f \in {features[i] : i \in DOMAIN features} |-> 0]

PredictorOff ==
    [pc |-> "off", entry |-> "none", has_metrics |-> FALSE, length |-> 0, fi |-> 0,
     model_performances |-> NoPerformances, best_models |-> <<>>, models |-> FALSE,
     train_result |-> "none", call |-> "none", changes |-> NoChanges,
     declining_features |-> {}, outcome |-> "none", answer |-> "none"]

\* a predictor built by a direct caller on any frame or on none, by the
\* prediction route or by the Celery task on a frame with rows
InitPredictor ==
    \/ predictor = [PredictorOff EXCEPT !.pc = "new", !.entry = "direct"]
    \/ \E n \in 0..MaxLength :
          predictor = [PredictorOff EXCEPT !.pc = "new", !.entry = "direct",
                                           !.has_metrics = TRUE, !.length = n]
    \/ \E n \in 1..MaxLength, caller \in {"route", "task"} :
          predictor = [PredictorOff EXCEPT !.pc = "new", !.entry = caller,
                                           !.has_metrics = TRUE, !.length = n]

\* create_time_series_features and the test of train_models on its result:
\* "false" without metrics or with fewer than 4 windows, "raised" for the
\* reshape of an X without windows (or the scaling of a frame without rows),
\* "fit" when the models are fitted
FeaturesOutcome(p) ==
    IF ~p.has_metrics THEN "false"
    ELSE IF p.length <= window_size THEN "raised"
    ELSE IF p.length - window_size < MinWindows THEN "false"
    ELSE "fit"

\* the champion of a feature: the predefined type, replaced by the better of
\* random forest and neural network when it is a decision tree with a test
\* error below 0.0001
ChampionOf(feature, model_performances) ==
    LET best_model_type == best_model_types[feature]
        best_mse == model_performances[best_model_type]
        backup_model ==
            IF model_performances["random_forest"] < model_performances["neural_network"]
              THEN "random_forest" ELSE "neural_network"
    IN  IF best_mse < OverfitMSE /\ best_model_type = "decision_tree"
          THEN [model_type |-> backup_model, mse |-> model_performances[backup_model]]
          ELSE [model_type |-> best_model_type, mse |-> best_mse]

\* the end of a call sequence: what the predictor gave, what the caller answers
PredictorEnds(p, outcome, answer) ==
    [p EXCEPT !.pc = "done", !.outcome = outcome, !.answer = answer]

\* train_models returned False or raised: a direct caller sees the exception
\* or goes on, the route answers 500, the task answers an error for an
\* exception and a result without predictions for False
TrainingFails(p, result) ==
    LET q == [p EXCEPT !.train_result = result]
    IN  CASE p.entry = "direct" /\ result = "raised" -> PredictorEnds(q, "raised", "none")
          [] p.entry = "direct" -> [q EXCEPT !.pc = "trained"]
          [] p.entry = "task" /\ result = "false" ->
                PredictorEnds(q, "none", "no_predictions")
          [] OTHER -> PredictorEnds(q, "none", "error")

\* predict_player_performance with fewer than 4 matches answers
\* generate_simple_predictions: the latest values changed by random.random()
RouteSimplePredictions ==
    /\ predictor.pc = "new" /\ predictor.entry = "route"
    /\ predictor.length < RouteMinMatches
    /\ predictor' = PredictorEnds(predictor, "none", "random")
    /\ UNCHANGED <<jobVars, resolver, collector, metrics, task>>

\* the callers of train_models: the route with 4 matches or more, the task
\* and a direct caller with any series
TrainCalled ==
    /\ predictor.pc = "new"
    /\ predictor.entry = "route" => predictor.length >= RouteMinMatches

\* train_models returns False or raises before any model is fitted
TrainModelsWithoutFit ==
    /\ TrainCalled
    /\ FeaturesOutcome(predictor) # "fit"
    /\ predictor' = TrainingFails(predictor, FeaturesOutcome(predictor))
    /\ UNCHANGED <<jobVars, resolver, collector, metrics, task>>

\* train_models has its windows and starts the loop over the features
TrainModelsBegin ==
    /\ TrainCalled
    /\ FeaturesOutcome(predictor) = "fit"
    /\ predictor' = [predictor EXCEPT !.pc = "training"]
    /\ UNCHANGED <<jobVars, resolver, collector, metrics, task>>

\* one turn of the loop: the five regressors are fitted and tested, the
\* champion of the feature is stored; after the last feature self.models is
\* set and train_models returns True
TrainFeature ==
    /\ predictor.pc = "training"
    /\ \E mses \in [ModelTypes -> MSEValues] :
          predictor' =
            LET i == predictor.fi + 1
                p == [predictor EXCEPT
                        !.fi = i, !.model_performances = mses,
                        !.best_models = Append(predictor.best_models,
                                               ChampionOf(features[i], mses))]
            IN  IF i < Len(features) THEN p
                ELSE [p EXCEPT !.pc = "trained", !.models = TRUE,
                               !.train_result = "true"]
    /\ UNCHANGED <<jobVars, resolver, collector, metrics, task>>

\* predict_next_performance(self), the function of the module: (None, None)
\* without models or below 3 matches, the average trend below 5 matches, else
\* the champions' predictions; a predicted decline calls self._alert_decline,
\* which the class does not have
PredictNextPerformance(p, declining) ==
    IF ~p.models THEN "insufficient"
    ELSE IF ~p.has_metrics \/ p.length < MinPredictLength THEN "insufficient"
    ELSE IF p.length < SimpleBelow THEN "trend"
    ELSE IF declining THEN "raised"
    ELSE "champion"

\* predictor.predict_next_performance(), as the route and the task call it:
\* the class has no such method (the def is at module level), AttributeError;
\* the route answers 500, the task an error
PredictMethodCalled ==
    /\ predictor.pc = "trained"
    /\ predictor.entry # "direct" => predictor.train_result = "true"
    /\ predictor' = PredictorEnds([predictor EXCEPT !.call = "method"], "raised",
                                  IF predictor.entry = "direct" THEN "none" ELSE "error")
    /\ UNCHANGED <<jobVars, resolver, collector, metrics, task>>

\* `if perc_change <= -self.decline_threshold: declining_features.append(...)`
DecliningFeatures(changes) ==
    {f \in DOMAIN changes : changes[f] <= -decline_threshold}

\* predict_next_performance(predictor), called as the function it is; the
\* champions' branch computes a change for every feature
PredictFunctionCalled ==
    /\ predictor.pc = "trained" /\ predictor.entry = "direct"
    /\ LET path == PredictNextPerformance(predictor, FALSE)
       IN  IF path = "champion"
             THEN \E changes \in [DOMAIN NoChanges -> ChangeValues] :
                     predictor' =
                       PredictorEnds([predictor EXCEPT
                            !.call = "function", !.changes = changes,
                            !.declining_features = DecliningFeatures(changes)],
                          PredictNextPerformance(predictor,
                                                 DecliningFeatures(changes) # {}),
                          "none")
             ELSE predictor' =
                     PredictorEnds([predictor EXCEPT !.call = "function"], path, "none")
    /\ UNCHANGED <<jobVars, resolver, collector, metrics, task>>

(***************************************************************************)
(* The pipeline task (tasks.py: collect_player_data_task), one submission  *)
(* of it.  The task runner executes the body; self.retry() puts the task   *)
(* back in the queue with request.retries raised by one.                   *)
(***************************************************************************)
\* @celery.task(bind=True, max_retries=2)
task_max_retries == 2
\* max_matches=7
task_max_matches == 7

\* ended: how each finished execution of the body ended, in order;
\* stages: the outcomes of the stages of the execution under way;
\* cache: the entry player_data_<id> of the result cache; job_flag: whether
\* the entry player_job_<id> exists
TaskOff ==
    [pc |-> "off", valid_id |-> TRUE, retries |-> 0, ended |-> <<>>, stages |-> <<>>,
     length |-> 0, prediction_results |-> "none", cache |-> "none",
     job_flag |-> FALSE, result |-> "none"]

InitTask ==
    task \in {[TaskOff EXCEPT !.pc = "queued", !.valid_id = v, !.cache = c,
                              !.job_flag = j] :
                 v \in BOOLEAN, c \in {"none", "old"}, j \in BOOLEAN}

\* TaskRaises that retries once more than max_retries allows
TaskRaisesOnceMore(t, stage_outcomes) ==
    IF t.retries <= task_max_retries
      THEN [t EXCEPT !.pc = "queued", !.retries = @ + 1,
                     !.ended = Append(@, "raised"), !.stages = stage_outcomes]
      ELSE [t EXCEPT !.pc = "done", !.ended = Append(@, "raised"),
                     !.stages = stage_outcomes, !.result = "error_exception"]

\* TaskRaises that stores a result before it retries or gives up
TaskRaisesStoring(t, stage_outcomes) ==
    IF t.retries < task_max_retries
      THEN [t EXCEPT !.pc = "queued", !.retries = @ + 1, !.cache = "result",
                     !.ended = Append(@, "raised"), !.stages = stage_outcomes]
      ELSE [t EXCEPT !.pc = "done", !.ended = Append(@, "raised"), !.cache = "result",
                     !.stages = stage_outcomes, !.result = "error_exception"]

\* `except Exception as e`: self.retry(exc=e, countdown=5) while
\* self.request.retries < self.max_retries, else the error dict with str(e)
TaskRaises(t, stage_outcomes) ==
    IF t.retries < task_max_retries
      THEN [t EXCEPT !.pc = "queued", !.retries = @ + 1,
                     !.ended = Append(@, "raised"), !.stages = stage_outcomes]
      ELSE [t EXCEPT !.pc = "done", !.ended = Append(@, "raised"),
                     !.stages = stage_outcomes, !.result = "error_exception"]

\* the body returns a dict: the task is over
TaskReturns(t, kind, stage_outcomes, result) ==
    [t EXCEPT !.pc = "done", !.ended = Append(@, kind), !.stages = stage_outcomes,
              !.result = result]

\* the runner starts the body: float(player_id), the collector is built
TaskBegin ==
    /\ task.pc = "queued"
    /\ task' = IF task.valid_id
                 THEN [task EXCEPT !.pc = "collect", !.stages = <<>>, !.length = 0]
                 ELSE TaskRaises(task, <<>>)
    /\ UNCHANGED <<jobVars, resolver, collector, metrics, predictor>>

\* Step 1: collector.collect_player_data() returns True or False, or raises
TaskCollect ==
    /\ task.pc = "collect"
    /\ \E out \in {"ok", "false", "raised"} :
          task' = CASE out = "ok" ->
                         [task EXCEPT !.pc = "metrics", !.stages = Append(@, "ok")]
                    [] out = "false" ->
                         TaskReturns(task, "domain", Append(task.stages, "false"),
                                     "error_collect")
                    [] OTHER -> TaskRaises(task, Append(task.stages, "raised"))
    /\ UNCHANGED <<jobVars, resolver, collector, metrics, predictor>>

\* Step 2: collector.calculate_performance_metrics() returns True with a
\* series of 1..max_matches matches, returns False, or raises
TaskMetrics ==
    /\ task.pc = "metrics"
    /\ \/ \E n \in 1..task_max_matches :
            task' = [task EXCEPT !.pc = "train", !.stages = Append(@, "ok"),
                                 !.length = n]
       \/ task' = TaskReturns(task, "domain", Append(task.stages, "false"),
                              "error_metrics")
       \/ task' = TaskRaises(task, Append(task.stages, "raised"))
    /\ UNCHANGED <<jobVars, resolver, collector, metrics, predictor>>

\* Step 3: predictor.train_models() raises, returns False (prediction_results
\* stays None) or returns True
TaskTrain ==
    /\ task.pc = "train"
    /\ LET out == FeaturesOutcome([has_metrics |-> TRUE, length |-> task.length])
       IN  task' = CASE out = "raised" ->
                          TaskRaises(task, Append(task.stages, "raised"))
                     [] out = "false" ->
                          [task EXCEPT !.pc = "store",
                                       !.stages = Append(@, "insufficient")]
                     [] OTHER -> [task EXCEPT !.pc = "predict"]
    /\ UNCHANGED <<jobVars, resolver, collector, metrics, predictor>>

\* predictor.predict_next_performance(): the class has no such method
TaskPredict ==
    /\ task.pc = "predict"
    /\ task' = TaskRaises(task, Append(task.stages, "raised"))
    /\ UNCHANGED <<jobVars, resolver, collector, metrics, predictor>>

\* the result dict, cache.set(cache_key, result), cache.delete(job_key),
\* return result
TaskStore ==
    /\ task.pc = "store"
    /\ task' = [TaskReturns(task, "success", task.stages, "success")
                  EXCEPT !.cache = "result", !.job_flag = FALSE]
    /\ UNCHANGED <<jobVars, resolver, collector, metrics, predictor>>

(***************************************************************************)
(* The specifications.                                                     *)
(***************************************************************************)
\* the orchestrator: request threads and background workers
Init ==
    /\ InitJobs /\ resolver = ResolverOff /\ collector = CollectorOff
    /\ metrics = MetricsOff /\ predictor = PredictorOff /\ task = TaskOff

Next ==
    \/ \E r \in ReqThreads : \E k \in Keys \cup {InvalidId} : StartCheckCache(r, k)
    \/ \E r \in ReqThreads : StartReadCache(r)
    \/ \E r \in ReqThreads : StartCheckJobs(r)
    \/ \E r \in ReqThreads : StartWriteMarker(r)
    \/ \E r \in ReqThreads : StartLaunch(r)
    \/ \E r \in ReqThreads : StartLaunchFails(r)
    \/ \E r \in ReqThreads : \E k \in Keys \cup {InvalidId} : PollCheckJobs(r, k)
    \/ \E r \in ReqThreads : PollCheckCache(r)
    \/ \E r \in ReqThreads : PollReadCache(r)
    \/ \E r \in ReqThreads : ClearCache(r)
    \/ \E k \in Keys : \E i \in WorkerIds(k) : WorkerBegin(k, i)
    \/ \E k \in Keys : \E i \in WorkerIds(k) : WorkerCollect(k, i)
    \/ \E k \in Keys : \E i \in WorkerIds(k) : WorkerCollectFails(k, i)
    \/ \E k \in Keys : \E i \in WorkerIds(k) : WorkerMetrics(k, i)
    \/ \E k \in Keys : \E i \in WorkerIds(k) : WorkerMetricsFails(k, i)
    \/ \E k \in Keys : \E i \in WorkerIds(k) : WorkerMark(k, i)
    \/ Tick

Spec == Init /\ [][Next]_vars

\* a step of worker i of player id k, which has been started
WorkerStep(k, i) ==
    /\ i \in WorkerIds(k)
    /\ \/ WorkerBegin(k, i)
       \/ WorkerCollect(k, i)
       \/ WorkerCollectFails(k, i)
       \/ WorkerMetrics(k, i)
       \/ WorkerMetricsFails(k, i)
       \/ WorkerMark(k, i)

\* a step of the handler that thread r is in the middle of
HandlerStep(r) ==
    \/ StartReadCache(r)
    \/ StartCheckJobs(r)
    \/ StartWriteMarker(r)
    \/ StartLaunch(r)
    \/ StartLaunchFails(r)
    \/ PollCheckCache(r)
    \/ PollReadCache(r)

\* the orchestrator with its threads scheduled fairly: a started worker thread
\* goes on running (each fetch returns or raises), and so does a handler
SpecFair ==
    /\ Init /\ [][Next]_vars
    /\ \A k \in Keys : \A i \in 1..MaxWorkersPerKey : WF_vars(WorkerStep(k, i))
    /\ \A r \in ReqThreads : WF_vars(HandlerStep(r))

\* one run of the resolver
InitResolve ==
    /\ InitJobs /\ InitResolver /\ collector = CollectorOff
    /\ metrics = MetricsOff /\ predictor = PredictorOff /\ task = TaskOff

NextResolve ==
    \/ ResolveEntry
    \/ ListCompetitionsById
    \/ ListCompetitionsByName
    \/ ListMatches
    \/ VerifyEventsRaise
    \/ VerifyEvents
    \/ FindEvents

SpecResolve == InitResolve /\ [][NextResolve]_vars

\* one run of the collector
InitCollect ==
    /\ InitJobs /\ resolver = ResolverOff /\ InitCollector
    /\ metrics = MetricsOff /\ predictor = PredictorOff /\ task = TaskOff

NextCollect ==
    \/ CollectEntry
    \/ CollectCompetitions
    \/ CollectMatchesSkipped
    \/ CollectMatches
    \/ CollectEventsWithoutPlayer
    \/ CollectEventsWithPlayer
    \/ CollectEventsBroken

SpecCollect == InitCollect /\ [][NextCollect]_vars

\* one run of the metrics derivation
InitMetricsRun ==
    /\ InitJobs /\ resolver = ResolverOff /\ collector = CollectorOff
    /\ InitMetrics /\ predictor = PredictorOff /\ task = TaskOff

NextMetrics ==
    \/ CalculateWithoutData
    \/ CalculatePerformanceMetrics

SpecMetrics == InitMetricsRun /\ [][NextMetrics]_vars

\* one predictor: train_models, then predict_next_performance
InitPredict ==
    /\ InitJobs /\ resolver = ResolverOff /\ collector = CollectorOff
    /\ metrics = MetricsOff /\ InitPredictor /\ task = TaskOff

NextPredict ==
    \/ RouteSimplePredictions
    \/ TrainModelsWithoutFit
    \/ TrainModelsBegin
    \/ TrainFeature
    \/ PredictMethodCalled
    \/ PredictFunctionCalled

SpecPredict == InitPredict /\ [][NextPredict]_vars

\* one submission of the pipeline task
InitTaskRun ==
    /\ InitJobs /\ resolver = ResolverOff /\ collector = CollectorOff
    /\ metrics = MetricsOff /\ predictor = PredictorOff /\ InitTask

NextTask ==
    \/ TaskBegin
    \/ TaskCollect
    \/ TaskMetrics
    \/ TaskTrain
    \/ TaskPredict
    \/ TaskStore

SpecTask == InitTaskRun /\ [][NextTask]_vars

\* the orchestrator with two player ids; one request thread serves the start
\* and clear-cache requests, the other one the polls, and the workers of both
\* ids run beside them
TwoKeys == {1, 2}
KeyThreads == {1}
PollThreads == {2}

InitTwoKeys ==
    /\ active_jobs = EmptyDict
    /\ player_cache = EmptyDict
    /\ now = 0
    /\ req = [r \in ReqThreads |-> IdleReq]
    /\ response = NoResponse
    /\ workers = [k \in TwoKeys |-> <<>>]
    /\ resolver = ResolverOff /\ collector = CollectorOff
    /\ metrics = MetricsOff /\ predictor = PredictorOff /\ task = TaskOff

NextTwoKeys ==
    \/ \E r \in KeyThreads : \E k \in TwoKeys : StartCheckCache(r, k)
    \/ \E r \in KeyThreads : StartReadCache(r)
    \/ \E r \in KeyThreads : StartCheckJobs(r)
    \/ \E r \in KeyThreads : StartWriteMarker(r)
    \/ \E r \in KeyThreads : StartLaunch(r)
    \/ \E r \in KeyThreads : StartLaunchFails(r)
    \/ \E r \in PollThreads : \E k \in TwoKeys : PollCheckJobs(r, k)
    \/ \E r \in PollThreads : PollCheckCache(r)
    \/ \E r \in PollThreads : PollReadCache(r)
    \/ \E r \in KeyThreads : ClearCache(r)
    \/ \E k \in TwoKeys : \E i \in 1..Len(workers[k]) : WorkerBegin(k, i)
    \/ \E k \in TwoKeys : \E i \in 1..Len(workers[k]) : WorkerCollect(k, i)
    \/ \E k \in TwoKeys : \E i \in 1..Len(workers[k]) : WorkerCollectFails(k, i)
    \/ \E k \in TwoKeys : \E i \in 1..Len(workers[k]) : WorkerMetrics(k, i)
    \/ \E k \in TwoKeys : \E i \in 1..Len(workers[k]) : WorkerMetricsFails(k, i)
    \/ \E k \in TwoKeys : \E i \in 1..Len(workers[k]) : WorkerMark(k, i)

SpecTwoKeys == InitTwoKeys /\ [][NextTwoKeys]_vars

(***************************************************************************)
(* Claims about the orchestrator, checked under Spec.                      *)
(***************************************************************************)

\* C1: concurrent start requests for one key launch at most one background
\* worker for that key.
CE_C1_OneWorkerPerKey ==
    \A k \in Keys : Len(workers[k]) <= 1

\* the step sends the answer of a start request on k that the handler chose
\* from what it found in player_cache or active_jobs
StartAnswersFromLookup(k) ==
    /\ response'.op = "start" /\ response'.key = k
    /\ req[response'.thread].pc \in {"s_read", "s_jobs"}

JobOf(k) == active_jobs[k]
HasJob(k) == k \in DOMAIN active_jobs
Running(k) == HasJob(k) /\ JobOf(k).status \in NonTerminal

InProgressAnswer(k) ==
    /\ response'.code = 202
    /\ response'.body = [status |-> JobOf(k).status, message |-> JobOf(k).message]

\* C2 as stated: a start answered while the job of its key is in a
\* non-terminal status returns that status and message with 202, launches no
\* worker and leaves the job entry unchanged.
CE_C2_RunningStartReportsProgress ==
    [][\A k \in Keys :
          StartAnswersFromLookup(k) /\ Running(k)
             => InProgressAnswer(k) /\ UNCHANGED <<workers, active_jobs>>]_vars

\* C2 amended: a start that found no cached result and then finds the job of
\* its key in a non-terminal status returns that status and message with 202;
\* a start that answers from a lookup, cached result or not, launches no
\* worker and leaves the job entry unchanged.
Thm_C2_RunningStartReportsProgress ==
    [][\A k \in Keys :
          StartAnswersFromLookup(k) /\ Running(k)
             => /\ req[response'.thread].pc = "s_jobs" => InProgressAnswer(k)
                /\ UNCHANGED <<workers, active_jobs>>]_vars

\* a start has been answered 202 with the progress of a running job
Wit_C2_ProgressReported ==
    /\ response.op = "start" /\ response.code = 202
    /\ response.body = [status |-> "collecting", message |-> "Finding player data..."]
    /\ \E k \in Keys : Len(workers[k]) = 1

\* the cache entry of k is older than its validity window
Expired(k) == now - player_cache[k].timestamp >= CacheTTL

\* C4: a poll for a key whose job has completed returns completed with the
\* payload of the run until the TTL of the cache entry has elapsed, and
\* not-found afterwards.
CE_C4_PollUntilExpiry ==
    [][\A k \in Keys :
          /\ response'.op = "poll" /\ response'.key = k
          /\ HasJob(k) /\ JobOf(k).status = "completed"
          /\ k \in DOMAIN player_cache
          => IF Expired(k)
               THEN response'.code = 404
               ELSE /\ response'.code = 200
                    /\ response'.body = CompletedEntry(JobOf(k).data)]_vars

\* C5: a start for a key whose job has failed returns an accepted/in-progress
\* response (and a new run is launched): a failed job does not block later
\* starts.
CE_C5_FailedJobRestarts ==
    [][\A k \in Keys :
          /\ response'.op = "start" /\ response'.key = k
          /\ HasJob(k) /\ JobOf(k).status = "failed"
          /\ k \notin DOMAIN player_cache
          => response'.code = 202]_vars

\* the messages a run may leave when the stage at pc fails
StageMessages(pc) ==
    IF pc = "collect" THEN {MsgCollectFailed, MsgProcessingError}
                      ELSE {MsgMetricsFailed, MsgProcessingError}

\* C6: when a stage of a run fails or raises, that step leaves the job of the
\* key failed with the message of the stage or of the exception and writes no
\* result; the run is over then, so it never marks the job completed or running.
Thm_C6_StageFailureFailsJob ==
    /\ [](\A k \in Keys : \A i \in WorkerIds(k) :
             workers[k][i].outcome = "failed" => workers[k][i].pc = "done")
    /\ [][\A k \in Keys : \A i \in WorkerIds(k) :
             workers[k][i].outcome = "none" /\ workers'[k][i].outcome = "failed"
                => /\ active_jobs'[k].status = "failed"
                   /\ active_jobs'[k].message \in StageMessages(workers[k][i].pc)
                   /\ UNCHANGED player_cache]_vars

\* a run whose collection failed has ended and the job reads failed
Wit_C6_CollectFailed ==
    \E k \in Keys :
       /\ Len(workers[k]) = 1 /\ workers[k][1].outcome = "failed"
       /\ HasJob(k) /\ JobOf(k) = FailedEntry(MsgCollectFailed)

(***************************************************************************)
(* Claims about the throttled fetcher and the resolver, checked under      *)
(* SpecResolve.                                                            *)
(***************************************************************************)

\* C7 as stated: when every call raises, _throttled_request retries exactly 3
\* times, waiting a strictly increasing delay before each retry, before it
\* surfaces the error.
CE_C7_ThreeRetries ==
    resolver.fetch = "raised"
       => /\ Len(resolver.slept) = 3
          /\ \A j \in 1..2 : resolver.slept[j] < resolver.slept[j + 1]

\* C7 amended: when every call raises, _throttled_request makes exactly 3
\* calls (the first attempt and 2 retries), waits 1 s before the first retry
\* and twice as long before the second, surfaces the error after the third
\* failed call and returns no value.
Thm_C7_ThreeAttempts ==
    /\ resolver.fetch = "raised"
          => /\ resolver.calls = 3
             /\ Len(resolver.slept) = 2
             /\ resolver.slept[1] = 1
             /\ resolver.slept[2] = 2 * resolver.slept[1]
             /\ resolver.events = "none"
    /\ resolver.fetch = "pending"
          => /\ resolver.calls = resolver.attempt
             /\ Len(resolver.slept) = resolver.attempt
             /\ resolver.attempt < 3

\* a throttled request has surfaced its error
Wit_C7_ErrorSurfaced ==
    resolver.fetch = "raised" /\ resolver.calls = 3 /\ resolver.pc = "matches"

\* C8: resolving by identifier examines the matches of at most 15 competitions
\* (those whose match list is not empty; a competition skipped for an empty or
\* failed match list is not examined) and at most the first 3 matches of each,
\* then returns not-found; it returns found at the first events that hold the
\* identifier and fetches nothing further.
Thm_C8_BoundedScan ==
    resolver.path = "id"
       => /\ resolver.checked_competitions <= 15
          /\ resolver.checked_competitions <= resolver.ci
          /\ resolver.mi <= 3
          /\ resolver.events = "present" <=> resolver.result = "found"
          /\ resolver.result # "none" <=> resolver.pc = "done"
          /\ resolver.result \in {"none", "found", "notfound"}

\* the cap of 15 competitions ends a search while competitions are left
Wit_C8_CapEndsSearch ==
    /\ resolver.path = "id" /\ resolver.result = "notfound"
    /\ resolver.checked_competitions = 15
    /\ resolver.ci < resolver.ncomps

\* C9: find_player and _verify_player_id never raise; whatever the source
\* returns they end with found or not-found.
CE_C9_ResolverNeverRaises ==
    resolver.result # "raised"

(***************************************************************************)
(* Claims about the match collector, checked under SpecCollect.            *)
(***************************************************************************)

\* C10: a collect run that ends with fewer than max_matches appearances has
\* examined the matches of at most 3 competitions, competitions skipped for
\* empty results not counted.
CE_C10_CompetitionCap ==
    collector.pc = "done" /\ collector.matches_found < collector.max_matches
       => collector.inspected <= 3

\* C11: the number of appearances collected never exceeds max_matches; the
\* matches of a competition still to be examined are held latest first, and the
\* next one examined is the first of them; once max_matches appearances are
\* found no match list and no match events are fetched any more.
Thm_C11_AppearancesCapped ==
    /\ collector.matches_found <= collector.max_matches
    /\ Len(collector.player_matches) <= collector.max_matches
    /\ \A i, j \in DOMAIN collector.matches :
          i < j => collector.matches[i] >= collector.matches[j]
    /\ collector.pc \in {"matches", "events"}
          => collector.matches_found < collector.max_matches

\* a run stopped at max_matches appearances with competitions left unfetched
Wit_C11_StoppedAtCap ==
    /\ collector.pc = "done" /\ collector.result = "true"
    /\ collector.max_matches = 2 /\ collector.matches_found = 2
    /\ collector.ci < collector.ncomps

\* C12: collect_player_data returns failure exactly when no match of the player
\* was recorded; on success the stored match list holds between 1 and
\* max_matches records, as many as the appearance counter says.
CE_C12_SuccessHoldsRecords ==
    collector.pc = "done" /\ collector.result \in {"true", "false"}
       => /\ collector.result = "false" <=> collector.player_matches = <<>>
          /\ collector.result = "true"
                => /\ Len(collector.player_matches) \in 1..collector.max_matches
                   /\ collector.matches_found = Len(collector.player_matches)

\* C13: no fetch error during collection (competitions, matches, events)
\* leaves collect_player_data as an exception: the candidate is skipped.
CE_C13_FetchErrorsSkipped ==
    [][collector.pc \in {"competitions", "matches", "events"}
          => collector'.result # "raised"]_vars

(***************************************************************************)
(* Claims about the metrics derivation and the anomaly filter, checked     *)
(* under SpecMetrics.                                                       *)
(***************************************************************************)

\* C14 as stated: every derived record has 0 <= pass_completion_rate <= 1, and
\* the rate is 0 exactly when total_passes is 0.
CE_C14_RateZeroIffNoPasses ==
    \A i \in DOMAIN metrics.derived :
       LET r == metrics.derived[i]
       IN  /\ 0 <= r.pass_completion_rate.num
           /\ r.pass_completion_rate.num <= r.pass_completion_rate.den
           /\ r.pass_completion_rate.num = 0 <=> r.total_passes = 0

\* C14 amended: every derived record has 0 <= pass_completion_rate <= 1; the
\* rate is completed_passes / total_passes when there are passes and 0 when
\* there are none, so it is 0 exactly when no pass was completed.
Thm_C14_RateWithinUnit ==
    \A i \in DOMAIN metrics.derived :
       LET r == metrics.derived[i]
       IN  /\ 0 <= r.pass_completion_rate.num
           /\ r.pass_completion_rate.num <= r.pass_completion_rate.den
           /\ r.pass_completion_rate.den > 0
           /\ r.pass_completion_rate.num * r.total_passes
                 = r.completed_passes * r.pass_completion_rate.den
           /\ r.total_passes = 0 => r.pass_completion_rate.num = 0
           /\ r.pass_completion_rate.num = 0 <=> r.completed_passes = 0

\* a series with a match without passes and a match whose passes all failed
Wit_C14_NoPassCompleted ==
    /\ metrics.pc = "done" /\ metrics.result = "true"
    /\ \E i, j \in DOMAIN metrics.derived :
          /\ metrics.derived[i].total_passes = 0
          /\ metrics.derived[j].total_passes > 0
          /\ metrics.derived[j].pass_completion_rate.num = 0

\* C15 as stated: the final series of N matches is numbered 1..N, and of two
\* records one has the larger match_num exactly when it has the later date.
CE_C15_NumberedStrictlyByDate ==
    metrics.result = "true" =>
       LET pm == metrics.performance_metrics
       IN  /\ \A i \in DOMAIN pm : pm[i].match_num = i
           /\ \A i, j \in DOMAIN pm :
                 pm[i].match_num > pm[j].match_num
                    <=> pm[i].match_date > pm[j].match_date

\* C15 amended: the final series holds the matches the filter kept, numbered
\* 1..N without gaps or repeats, and a record with a later date has a larger
\* match_num (matches of one date have different numbers).
Thm_C15_NumberedByDate ==
    metrics.result = "true" =>
       LET pm == metrics.performance_metrics
       IN  /\ Len(pm) = Len(metrics.filtered)
           /\ {pm[i].match_id : i \in DOMAIN pm}
                 = {metrics.filtered[i].match_id : i \in DOMAIN metrics.filtered}
           /\ \A i \in DOMAIN pm : pm[i].match_num = i
           /\ \A i, j \in DOMAIN pm :
                 pm[i].match_date > pm[j].match_date
                    => pm[i].match_num > pm[j].match_num

\* a series collected latest first that lost a match to the filter
Wit_C15_RenumberedAfterRemoval ==
    /\ metrics.result = "true"
    /\ Len(metrics.filtered) < Len(metrics.derived)
    /\ metrics.derived[1].match_date > metrics.derived[2].match_date
    /\ Len(metrics.performance_metrics) = Len(metrics.filtered)

\* C16: with fewer than 4 derived matches the anomaly filter leaves the
\* series as it is: no match removed, no field changed.
Thm_C16_ShortSeriesUntouched ==
    metrics.pc = "done" /\ metrics.collected
       /\ Len(metrics.derived) < 4
       => metrics.filtered = metrics.derived

\* a series of 3 matches whose pass completion rates differ
Wit_C16_ThreeMatches ==
    /\ metrics.pc = "done" /\ Len(metrics.derived) = 3
    /\ metrics.filtered = metrics.derived
    /\ metrics.derived[1].pass_completion_rate
          # metrics.derived[2].pass_completion_rate

\* the derived series has the 6 rates of the scenario on 6 successive dates,
\* and no other checked metric varies
ScenarioDerived ==
    LET d == metrics.derived
    IN  /\ Len(d) = 6
        /\ \A k \in 1..6 : \E i \in DOMAIN d :
              /\ d[i].match_date = k
              /\ d[i].pass_completion_rate = [num |-> ScenarioSeries[k], den |-> 100]
        /\ \A i, j \in DOMAIN d :
              /\ d[i].total_events = d[j].total_events
              /\ d[i].defensive_actions = d[j].defensive_actions
              /\ d[i].team_pass_completion = d[j].team_pass_completion

\* C17: of the 6-match series with pass completion rates 0.80, 0.82, 0.79,
\* 0.81, 0.15, 0.83 in date order the filter removes exactly the 5th match, and
\* the final series is the 5 others in date order, numbered 1..5.
Thm_C17_OutlierRemoved ==
    metrics.pc = "done" /\ ScenarioDerived =>
       LET pm == metrics.performance_metrics
       IN  /\ metrics.result = "true"
           /\ Len(metrics.filtered) = 5
           /\ \A i \in DOMAIN metrics.filtered : metrics.filtered[i].match_date # 5
           /\ Len(pm) = 5
           /\ \A k \in 1..5 :
                 /\ pm[k].match_num = k
                 /\ pm[k].match_date = (IF k < 5 THEN k ELSE 6)
                 /\ pm[k].pass_completion_rate.num
                       = ScenarioSeries[IF k < 5 THEN k ELSE 6]

\* the scenario series, collected latest first, has been filtered
Wit_C17_ScenarioFiltered ==
    /\ metrics.pc = "done" /\ ScenarioDerived
    /\ metrics.derived[1].match_date = 6
    /\ Len(metrics.performance_metrics) = 5

(***************************************************************************)
(* Claims about the prediction engine, checked under SpecPredict.          *)
(***************************************************************************)

\* C18: train followed by predict on a series of length L gives the
\* insufficient-data outcome for L < 3, the trend extrapolation for L in
\* {3, 4} and the champions' prediction for L >= 5.
CE_C18_PathByLength ==
    predictor.pc = "done" /\ predictor.entry = "direct" /\ predictor.has_metrics
       => predictor.outcome =
             (IF predictor.length < 3 THEN "insufficient"
              ELSE IF predictor.length < 5 THEN "trend"
              ELSE "champion")

\* C19: on a series of 0 to 3 matches training and prediction never raise,
\* and no caller answers predicted values that were not derived from the
\* series.
CE_C19_ShortSeriesInsufficient ==
    predictor.has_metrics /\ predictor.length <= 3
       => /\ predictor.train_result # "raised"
          /\ predictor.outcome # "raised"
          /\ predictor.answer # "random"

\* the test errors of the feature trained last, and the champion stored for it
LastPerformances == predictor.model_performances
LastChampion == predictor.best_models[predictor.fi]

\* C20 as stated: when the decision tree's test MSE is below 0.0001 (10
\* units) the champion is not the decision tree but whichever of random
\* forest and neural network has the lower test MSE.
CE_C20_OverfitTreeReplaced ==
    predictor.fi >= 1 /\ LastPerformances["decision_tree"] < 10
       => /\ LastChampion.model_type \in {"random_forest", "neural_network"}
          /\ LastChampion.mse <= LastPerformances["random_forest"]
          /\ LastChampion.mse <= LastPerformances["neural_network"]

\* C20 amended: whatever the five test errors are, the champion stored for a
\* metric is the model predefined for it (random forest for total_passes,
\* neural network for the others) with that model's test MSE; it is never the
\* decision tree, whether the tree's test MSE is below 0.0001 or not.
Thm_C20_ChampionPredefined ==
    /\ \A i \in DOMAIN predictor.best_models :
          /\ predictor.best_models[i].model_type # "decision_tree"
          /\ predictor.best_models[i].model_type =
                (IF features[i] = "total_passes" THEN "random_forest"
                                                 ELSE "neural_network")
    /\ predictor.fi >= 1
          => LastChampion.mse = LastPerformances[LastChampion.model_type]

\* all four champions are stored; for the last metric the tree's test MSE is
\* below 0.0001 and the random forest beats the neural network
Wit_C20_TreeBelowThreshold ==
    /\ predictor.pc = "trained" /\ predictor.fi = 4
    /\ LastPerformances["decision_tree"] < 10
    /\ LastPerformances["random_forest"] < LastPerformances["neural_network"]
    /\ LastChampion.model_type = "neural_network"

\* C21: a metric is listed as declining exactly when its predicted change is
\* -5% or lower, and the list never suppresses the predictions: they are
\* returned for every metric whatever declines.
CE_C21_DeclineDoesNotGate ==
    predictor.pc = "done" /\ predictor.call = "function"
       /\ predictor.models /\ predictor.length >= 5
       => /\ predictor.declining_features
                = {f \in DOMAIN predictor.changes : predictor.changes[f] <= -5}
          /\ predictor.outcome = "champion"

(***************************************************************************)
(* Claims about the pipeline task, checked under SpecTask.                 *)
(***************************************************************************)
\* the executions of the body started so far
Executions ==
    Len(task.ended)
      + (IF task.pc \in {"collect", "metrics", "train", "predict", "store"}
           THEN 1 ELSE 0)

\* C22: one submission is executed at most 3 times; an execution is followed
\* by another one only when it raised, never when a stage reported failure;
\* when the third execution raises the task ends with the error result.
Thm_C22_AtMostThreeExecutions ==
    /\ Executions <= 3
    /\ \A i \in 1..Len(task.ended) :
          (i < Len(task.ended) \/ task.pc # "done") => task.ended[i] = "raised"
    /\ \A i \in 1..Len(task.ended) :
          task.ended[i] = "domain"
             => /\ i = Len(task.ended) /\ task.pc = "done"
                /\ task.result \in {"error_collect", "error_metrics"}
    /\ (Len(task.ended) = 3 /\ task.ended[3] = "raised")
          => task.pc = "done" /\ task.result = "error_exception"

Wit_C22_ThirdExecutionRaised ==
    /\ task.pc = "done" /\ task.ended = <<"raised", "raised", "raised">>
    /\ task.result = "error_exception"

\* the step writes a result for k to player_cache
CacheWritten(k) ==
    /\ k \in DOMAIN player_cache'
    /\ k \in DOMAIN player_cache => player_cache'[k] # player_cache[k]

\* C23: a result is written to the result cache only by a run whose stages
\* have all finished without failing (a prediction stage that reports too
\* few matches finishes with no predictions); an execution that returns a
\* failure or raises leaves the result cache as it was.  The first two
\* conjuncts are about the task, the last two about the background worker.
Thm_C23_CacheOnlyAfterAllStages ==
    [][/\ task'.cache # task.cache
             => /\ task.pc = "store" /\ task'.result = "success"
                /\ task.stages = <<"ok", "ok", "insufficient">>
       /\ (Len(task'.ended) > Len(task.ended)
              /\ task'.ended[Len(task'.ended)] \in {"raised", "domain"})
             => task'.cache = task.cache
       /\ \A k \in Keys :
             CacheWritten(k)
                => \E i \in WorkerIds(k) :
                      /\ workers[k][i].pc = "metrics" /\ workers'[k][i].pc = "mark"
                      /\ player_cache'[k].data = workers'[k][i].performances
       /\ \A k \in Keys : \A i \in WorkerIds(k) :
             (workers[k][i].outcome = "none" /\ workers'[k][i].outcome = "failed")
                => player_cache' = player_cache]_vars

Wit_C23_StoredAfterRetry ==
    /\ task.pc = "done" /\ task.result = "success" /\ task.cache = "result"
    /\ task.ended = <<"raised", "success">>

(***************************************************************************)
(* Further claims about the orchestrator, checked under Spec.              *)
(***************************************************************************)
\* C24: a poll for a key answers by the job state of the key: the entry of a
\* running, completed or failed job as it stands (status and progress message
\* without payload, the payload, the error message), and the not-found
\* indication when there is neither a job entry nor a cached result; it never
\* answers with an error of its own.
CE_C24_PollAnswersByJobState ==
    \A k \in Keys :
       (response.op = "poll" /\ response.key = k)
          => /\ response.code \in {200, 404}
             /\ (response.code = 200 /\ k \in DOMAIN active_jobs)
                   => response.body = active_jobs[k]
             /\ (response.code = 200 /\ k \notin DOMAIN active_jobs)
                   => /\ k \in DOMAIN player_cache
                      /\ response.body = CompletedEntry(player_cache[k].data)
             /\ response.code = 404 => response.body.status = "not_found"

\* the place of a status on the way starting -> collecting -> processing ->
\* completed
StatusRank(status) ==
    CASE status = "starting" -> 1
      [] status = "collecting" -> 2
      [] status = "processing" -> 3
      [] status = "completed" -> 4
      [] OTHER -> 0

\* C25: the job status of a key only moves one stage forward along starting ->
\* collecting -> processing -> completed, or from a non-terminal status to
\* failed; a completed or failed status is never changed by a later step.
CE_C25_StatusOnlyForward ==
    [][\A k \in Keys :
          (HasJob(k) /\ active_jobs'[k].status # JobOf(k).status)
             => /\ JobOf(k).status \in NonTerminal
                /\ \/ active_jobs'[k].status = "failed"
                   \/ StatusRank(active_jobs'[k].status)
                         = StatusRank(JobOf(k).status) + 1]_vars

(***************************************************************************)
(* Claims about two player ids, checked under SpecTwoKeys.                 *)
(***************************************************************************)
\* the step is a step of a start, a poll or a worker for k
StepFor(k) ==
    \/ workers'[k] # workers[k]
    \/ \E r \in ReqThreads : req'[r] # req[r] /\ k \in {req[r].key, req'[r].key}
    \/ response'.op \in {"start", "poll"} /\ response'.key = k

\* the step changes the job entry or the cached result of k
EntryChanged(d, e, k) ==
    \/ (k \in DOMAIN d) # (k \in DOMAIN e)
    \/ k \in DOMAIN d /\ k \in DOMAIN e /\ d[k] # e[k]

\* C26: a step of a start, a poll or a background worker for key A leaves the
\* job entry and the cached result of every other key B unchanged.
Thm_C26_KeysIndependent ==
    [][\A A \in TwoKeys : \A B \in TwoKeys \ {A} :
          StepFor(A)
             => /\ ~EntryChanged(active_jobs, active_jobs', B)
                /\ ~EntryChanged(player_cache, player_cache', B)]_vars

Wit_C26_BothKeysUsed ==
    /\ 1 \in DOMAIN active_jobs /\ active_jobs[1].status = "completed"
    /\ 2 \in DOMAIN active_jobs /\ active_jobs[2].status = "processing"
    /\ 1 \in DOMAIN player_cache /\ 2 \notin DOMAIN player_cache

(***************************************************************************)
(* Further claims about the anomaly filter, checked under SpecMetrics.     *)
(***************************************************************************)
\* C27: with the threshold 2.0 the anomaly filter removes no match from a
\* series of 4 or 5 matches, whatever the values of the metrics.
CE_C27_NoRemovalUpToFive ==
    (metrics.pc = "done" /\ metrics.collected /\ Len(metrics.derived) \in {4, 5})
       => metrics.filtered = metrics.derived

\* the job entry of k is written or rewritten by the step
JobWritten(k) ==
    /\ k \in DOMAIN active_jobs'
    /\ k \in DOMAIN active_jobs => active_jobs'[k] # active_jobs[k]

\* C28: whenever the job status of a key reads completed the entry carries
\* the data payload; the payload is the one the run that completed it stored
\* in the result cache before, and every answer that says completed carries
\* data.
Thm_C28_CompletedCarriesData ==
    [][\A k \in Keys :
          /\ (k \in DOMAIN active_jobs' /\ active_jobs'[k].status = "completed")
                => "data" \in DOMAIN active_jobs'[k]
          /\ \A i \in WorkerIds(k) :
                (workers[k][i].pc = "metrics" /\ workers'[k][i].pc = "mark")
                   => /\ k \in DOMAIN player_cache'
                      /\ player_cache'[k].data = workers'[k][i].performances
          /\ (JobWritten(k) /\ active_jobs'[k].status = "completed")
                => \E i \in WorkerIds(k) :
                      /\ workers[k][i].pc = "mark" /\ workers'[k][i].outcome = "ok"
                      /\ active_jobs'[k].data = workers[k][i].performances
          /\ ("status" \in DOMAIN response'.body
                 /\ response'.body.status = "completed")
                => "data" \in DOMAIN response'.body]_vars

Wit_C28_CompletedObserved ==
    \E k \in Keys :
       /\ HasJob(k) /\ JobOf(k).status = "completed"
       /\ Len(workers[k]) = 2
       /\ response.op = "poll" /\ response.key = k /\ response.body = JobOf(k)
       /\ k \in DOMAIN player_cache /\ player_cache[k].data # JobOf(k).data

\* C29: an authorized clear-cache empties the result cache and leaves every
\* job entry and every worker as they were; after it, a start for a key whose
\* job had completed does not serve the cleared result but goes on to launch
\* a new run.
CE_C29_StartAfterClearRelaunches ==
    [][/\ (response'.op = "clear" /\ response'.code = 200)
             => /\ player_cache' = EmptyDict
                /\ active_jobs' = active_jobs /\ workers' = workers
       /\ \A r \in ReqThreads : \A k \in Keys :
             (/\ req[r] = [op |-> "start", key |-> k, pc |-> "s_jobs"]
              /\ req'[r] # req[r]
              /\ k \notin DOMAIN player_cache
              /\ HasJob(k) /\ JobOf(k).status = "completed")
                => /\ req'[r].pc = "s_write"
                   /\ response'.code # 200]_vars

(***************************************************************************)
(* The claim about progress, checked under SpecFair.                       *)
(***************************************************************************)
\* C30: every job in a running status (starting, collecting, processing)
\* eventually reaches completed or failed.
CE_C30_RunningJobEnds ==
    \A k \in Keys :
       (HasJob(k) /\ JobOf(k).status \in NonTerminal)
          ~> (HasJob(k) /\ JobOf(k).status \in {"completed", "failed"})
====
